---- MODULE Spec2Model ----
(***************************************************************************)
(* Model of simple-psql's DBConnect (src/dbconnect/src/dbconnect.py): the  *)
(* scoped session (__enter__/__exit__), the execution gate query(), the    *)
(* statement builder read(), the column probe _get_column_names() and the  *)
(* result formatter format_result().                                       *)
(*                                                                         *)
(* Python strings are sequences of one-character strings, so that strip(), *)
(* split(), upper(), lower() and f-string concatenation are computed.      *)
(* Python values are records [t |-> <type name>, v |-> <payload>].         *)
(* A psycopg2 sql.Composed is a sequence of parts [t, s] with              *)
(* t \in {"SQL", "Identifier", "Literal"}.                                 *)
(***************************************************************************)
EXTENDS Integers, Sequences, FiniteSets, TLC

\* ------------------------------------------------------------------ bounds
MaxRows == 1

MaxLimit == 1

\* ------------------------------------------------------- character strings
UpperAlpha == <<"A","B","C","D","E","F","G","H","I","J","K","L","M",
                "N","O","P","Q","R","S","T","U","V","W","X","Y","Z">>

LowerAlpha == <<"a","b","c","d","e","f","g","h","i","j","k","l","m",
                "n","o","p","q","r","s","t","u","v","w","x","y","z">>

DigitChars == <<"0","1","2","3","4","5","6","7","8","9">>

UpperChar(c) ==
    IF \E i \in 1..26 : LowerAlpha[i] = c
    THEN UpperAlpha[CHOOSE i \in 1..26 : LowerAlpha[i] = c]
    ELSE c

LowerChar(c) ==
    IF \E i \in 1..26 : UpperAlpha[i] = c
    THEN LowerAlpha[CHOOSE i \in 1..26 : UpperAlpha[i] = c]
    ELSE c

\* str.upper()
upper(s) == [i \in 1..Len(s) |-> UpperChar(s[i])]

\* str.lower()
lower(s) == [i \in 1..Len(s) |-> LowerChar(s[i])]

IsSpace(c) == c \in {" ", "\t", "\n"}

RECURSIVE lstrip(_)
lstrip(s) ==
    IF s = <<>> THEN <<>>
    ELSE IF IsSpace(Head(s)) THEN lstrip(Tail(s)) ELSE s

RECURSIVE rstrip(_)
rstrip(s) ==
    IF s = <<>> THEN <<>>
    ELSE IF IsSpace(s[Len(s)]) THEN rstrip(SubSeq(s, 1, Len(s) - 1)) ELSE s

\* str.strip()
strip(s) == rstrip(lstrip(s))

\* length of the leading run of non-space characters
RECURSIVE WordLen(_)
WordLen(s) ==
    IF s = <<>> \/ IsSpace(Head(s)) THEN 0 ELSE 1 + WordLen(Tail(s))

\* str.split() with no separator: the maximal runs of non-space characters
RECURSIVE split(_)
split(s) ==
    LET r == lstrip(s)
        n == WordLen(r)
    IN IF r = <<>> THEN <<>>
       ELSE <<SubSeq(r, 1, n)>> \o split(SubSeq(r, n + 1, Len(r)))

RECURSIVE NatToStr(_)
NatToStr(n) ==
    IF n < 10 THEN <<DigitChars[n + 1]>>
    ELSE NatToStr(n \div 10) \o <<DigitChars[(n % 10) + 1]>>

\* the text psycopg2 binds for an int: negative numbers get a leading space
IntToStr(n) == IF n < 0 THEN <<" ", "-">> \o NatToStr(0 - n) ELSE NatToStr(n)

\* ---------------------------------------------------------- string literals
kwSELECT == <<"S","E","L","E","C","T"," ">>

kwFROM == <<" ","F","R","O","M"," ">>

kwWHERE == <<" ","W","H","E","R","E"," ">>

kwGROUPBY == <<" ","G","R","O","U","P"," ","B","Y"," ">>

kwORDERBY == <<" ","O","R","D","E","R"," ","B","Y"," ">>

kwLIMIT == <<" ","L","I","M","I","T"," ">>

kwPROBE == <<"S","E","L","E","C","T"," ","*"," ","F","R","O","M"," ">>

kwPROBEEND == <<" ","L","I","M","I","T"," ","1",";">>

sComma == <<","," ">>

sDot == <<".">>

sSpace == <<" ">>

sLParen == <<"(">>

sRParen == <<")">>

sQuote == <<"\"">>

sColonSpace == <<":"," ">>

sSELECT == <<"S","E","L","E","C","T">>

sASC == <<"A","S","C">>

sDESC == <<"D","E","S","C">>

sAND == <<"A","N","D">>

sOR == <<"O","R">>

sSUM == <<"S","U","M">>

sGT == <<">">>

sEQ == <<"=">>

sPub == <<"p","u","b">>

sFilm == <<"f","i","l","m">>

sCat == <<"c","a","t">>

sPrice == <<"p","r","i","c","e">>

sLen == <<"l","e","n">>

qSelectLower == <<" ","s","e","l","e","c","t"," ","1">>

qUpdate == <<"U","P","D","A","T","E"," ","t">>

qDelete == <<"D","E","L","E","T","E"," ","F","R","O","M"," ","t">>

qBlank == <<" "," ">>

qSelect == <<"S","E","L","E","C","T"," ","1">>

\* ------------------------------------------------------------ Python values
PyNone == [t |-> "NoneType", v |-> <<>>]

PyStr(s) == [t |-> "str", v |-> s]

PyInt(n) == [t |-> "int", v |-> n]

PyList(xs) == [t |-> "list", v |-> xs]

PyTuple(xs) == [t |-> "tuple", v |-> xs]

\* a dict is its insertion-ordered sequence of <<key, value>> items
PyDict(items) == [t |-> "dict", v |-> items]

\* a type object: list, dict, pd.DataFrame (or any other type)
PyType(name) == [t |-> "type", v |-> name]

\* sql.SQL(text) handed to query() by the caller
PySQL(s) == [t |-> "SQL", v |-> s]

\* sql.Composed(parts)
PyComposed(parts) == [t |-> "Composed", v |-> parts]

ComposableTypes == {"SQL", "Composed", "Identifier", "Literal"}

isinstance(x, types) == x.t \in types

\* bool(x): None, 0 and empty containers are false; psycopg2 Composables and
\* type objects define neither __bool__ nor __len__ and are always true
Truthy(x) ==
    CASE x.t = "NoneType" -> FALSE
      [] x.t = "int" -> x.v # 0
      [] x.t \in {"str", "list", "tuple", "dict"} -> Len(x.v) > 0
      [] OTHER -> TRUE

\* key in d
DictHas(d, k) == \E i \in 1..Len(d) : d[i][1] = k

\* d[k] / d.get(k) for a key that is present
DictGet(d, k) == d[CHOOSE i \in 1..Len(d) : d[i][1] = k][2]

\* dict(pairs): a later pair with the same key overwrites the value in place
RECURSIVE DictFromPairs(_)
DictFromPairs(ps) ==
    IF ps = <<>> THEN <<>>
    ELSE LET init == DictFromPairs(SubSeq(ps, 1, Len(ps) - 1))
             last == ps[Len(ps)]
         IN IF DictHas(init, last[1])
            THEN [i \in 1..Len(init) |->
                    IF init[i][1] = last[1] THEN last ELSE init[i]]
            ELSE Append(init, last)

Min(a, b) == IF a < b THEN a ELSE b

\* zip(xs, ys): pairs up to the shorter argument
zip(xs, ys) == [i \in 1..Min(Len(xs), Len(ys)) |-> <<xs[i], ys[i]>>]

\* ------------------------------------------------------ psycopg2.sql parts
SQL(s) == [t |-> "SQL", s |-> s]

Identifier(s) == [t |-> "Identifier", s |-> s]

Literal(n) == [t |-> "Literal", s |-> IntToStr(n)]

\* the text one part renders to: identifiers are double-quoted
PartString(p) ==
    IF p.t = "Identifier" THEN sQuote \o p.s \o sQuote ELSE p.s

RECURSIVE ComposedString(_)
ComposedString(parts) ==
    IF parts = <<>> THEN <<>>
    ELSE PartString(Head(parts)) \o ComposedString(Tail(parts))

\* Composable.as_string(): the statement text the cursor sends
as_string(q) ==
    IF q.t = "Composed" THEN ComposedString(q.v) ELSE q.v

\* sep.join(items): items is a sequence of part sequences
RECURSIVE join(_, _)
join(sep, items) ==
    IF items = <<>> THEN <<>>
    ELSE IF Len(items) = 1 THEN items[1]
    ELSE items[1] \o <<sep>> \o join(sep, Tail(items))

\* ------------------------------------------------------------ the store
\* column identifiers of the probed table, as cursor.description reports them
TableColumns == <<sCat, sPrice, sLen>>

\* the rows fetchall() returns: n rows of w scalar cells
Rows(n, w) == [i \in 1..n |-> [j \in 1..w |-> 10 * i + j]]

NoErr == [kind |-> "none", msg |-> ""]

Err(kind, msg) == [kind |-> kind, msg |-> msg]

\* one cursor.execute(): who issued it, the statement it was handed and
\* whether the store ran it without raising
Exec(via, stmt, ok) == [via |-> via, stmt |-> stmt, ok |-> ok]

\* ------------------------------------------------------- format_result()
\* a formatted result: its shape, the header row (tabular shape) and the body
Value(shape, header, body) == [shape |-> shape, header |-> header, body |-> body]

NoValue == Value("None", <<>>, <<>>)

\* header of the tabular shape when an aggregate map is held by the object
AggregateHeader(columns, aggregate) ==
    [i \in 1..Len(columns) |->
        IF ~DictHas(aggregate, columns[i]) THEN columns[i]
        ELSE lower(DictGet(aggregate, columns[i])) \o sColonSpace \o columns[i]]

\* pd.DataFrame(rows, columns=labels)
DataFrame(rows, labels) ==
    IF rows # <<>> /\ Len(rows[1]) # Len(labels)
    THEN [err |-> Err("ValueError", "columns passed do not match data"),
          value |-> NoValue]
    ELSE [err |-> NoErr, value |-> Value("DataFrame", labels, rows)]

\* format_result(self): the shape is chosen by the object's return_type and
\* the labels come from the object's columns and aggregate fields
format_result(self_return_type, self_result, self_columns, self_aggregate) ==
    CASE self_return_type = "list" ->
           [err |-> NoErr, value |-> Value("list", <<>>, self_result)]
      [] self_return_type = "dict" ->
           IF self_result # <<>> /\ self_columns.t = "NoneType"
           THEN [err |-> Err("TypeError", "NoneType is not iterable"),
                 value |-> NoValue]
           ELSE [err |-> NoErr,
                 value |-> Value("dict", <<>>,
                     [i \in 1..Len(self_result) |->
                         DictFromPairs(zip(self_columns.v, self_result[i]))])]
      [] self_return_type = "DataFrame" ->
           IF ~Truthy(self_aggregate)
           THEN IF self_columns.t = "NoneType"
                THEN [err |-> NoErr,
                      value |-> Value("DataFrame",
                          IF self_result = <<>> THEN <<>>
                          ELSE [j \in 1..Len(self_result[1]) |-> NatToStr(j - 1)],
                          self_result)]
                ELSE DataFrame(self_result, self_columns.v)
           ELSE IF self_columns.t = "NoneType"
                THEN [err |-> Err("TypeError", "NoneType is not iterable"),
                      value |-> NoValue]
                ELSE DataFrame(self_result,
                         AggregateHeader(self_columns.v, self_aggregate.v))

\* ----------------------------------------------------------------- query()
\* the outcome of one handler: the error raised (or none), the object's
\* fields afterwards, the executes issued and the value returned
Outcome(err, columns, aggregate, result, execs, ret) ==
    [err |-> err, columns |-> columns, aggregate |-> aggregate,
     result |-> result, execs |-> execs, ret |-> ret]

\* query(self, query, fetch): self is [return_type, columns, aggregate, result];
\* env is the store's behaviour: execOk, nrows and the width of its rows
query(self, q, fetch, env, width) ==
    LET fail(e, execs) ==
            Outcome(e, self.columns, self.aggregate, self.result, execs, NoValue)
        sent == <<Exec("query", q, env.execOk)>>
    IN
    IF ~Truthy(q)
    THEN fail(Err("ValueError", "Query cannot be empty"), <<>>)
    ELSE IF ~isinstance(q, {"str"} \cup ComposableTypes)
    THEN fail(Err("ValueError", "Query must be a string"), <<>>)
    ELSE IF isinstance(q, {"str"}) /\ split(strip(q.v)) = <<>>
    THEN fail(Err("IndexError", "list index out of range"), <<>>)
    ELSE IF isinstance(q, {"str"}) /\ upper(split(strip(q.v))[1]) # sSELECT
    THEN fail(Err("ValueError", "Only SELECT queries are allowed"), <<>>)
    ELSE IF ~env.execOk
    THEN fail(Err("BackendError", "execute failed"), sent)
    ELSE IF ~fetch
    THEN Outcome(NoErr, self.columns, self.aggregate, self.result, sent, NoValue)
    ELSE LET rows == Rows(env.nrows, width)
             f == format_result(self.return_type, rows,
                                self.columns, self.aggregate)
         IN IF f.err.kind # "none"
            THEN Outcome(f.err, self.columns, self.aggregate,
                         Value("list", <<>>, rows), sent, NoValue)
            ELSE Outcome(NoErr, self.columns, self.aggregate,
                         f.value, sent, f.value)

\* ------------------------------------------------------ _get_column_names()
ProbeStatement(schema, table_name) ==
    PyComposed(<<SQL(kwPROBE), Identifier(schema.v), SQL(sDot),
                 Identifier(table_name.v), SQL(kwPROBEEND)>>)

\* builds the probe, executes it and reads cursor.description;
\* sql.Identifier refuses a name that is not a string
_get_column_names(schema, table_name, env) ==
    IF ~isinstance(schema, {"str"}) \/ ~isinstance(table_name, {"str"})
    THEN [err |-> Err("TypeError", "SQL identifier parts must be strings"),
          execs |-> <<>>, columns |-> PyNone]
    ELSE IF ~env.probeOk
    THEN [err |-> Err("BackendError", "execute failed"),
          execs |-> <<Exec("probe", ProbeStatement(schema, table_name), FALSE)>>,
          columns |-> PyNone]
    ELSE [err |-> NoErr,
          execs |-> <<Exec("probe", ProbeStatement(schema, table_name), TRUE)>>,
          columns |-> PyList(TableColumns)]

\* ------------------------------------------------------------------ read()
ReturnTypes == {"list", "dict", "DataFrame"}

\* the isinstance checks of read() that follow column resolution, in order
TypeChecks(a) ==
    IF ~isinstance(a.table_name, {"str"})
    THEN Err("TypeError", "Table name must be a string")
    ELSE IF ~isinstance(a.conditions, {"dict", "NoneType"})
    THEN Err("TypeError", "Conditions must be a dictionary")
    ELSE IF ~isinstance(a.aggregate, {"dict", "NoneType"})
    THEN Err("TypeError", "Aggregate must be a dictionary")
    ELSE IF ~isinstance(a.conjuction, {"str"})
    THEN Err("TypeError", "Conjunction must be a string")
    ELSE IF ~isinstance(a.order_by, {"dict", "NoneType", "str", "tuple"})
    THEN Err("TypeError", "order_by must be a dictionary/tuple/string or None")
    ELSE IF ~isinstance(a.group_by, {"list", "NoneType"})
    THEN Err("TypeError", "Group must be a list")
    ELSE IF ~isinstance(a.limit, {"int", "NoneType"})
    THEN Err("TypeError", "Limit must be an integer")
    ELSE IF Truthy(a.return_type)
            /\ ~(a.return_type.t = "type" /\ a.return_type.v \in ReturnTypes)
    THEN Err("TypeError", "Invalid return type")
    ELSE NoErr

\* the SELECT items: with an aggregate map the caller's column list is walked,
\* without one the resolved list held by the object
columns_sql(a, self_columns) ==
    IF Truthy(a.aggregate)
    THEN [i \in 1..Len(a.columns.v) |->
            IF DictHas(a.aggregate.v, a.columns.v[i])
            THEN <<SQL(DictGet(a.aggregate.v, a.columns.v[i])), SQL(sLParen),
                   Identifier(a.columns.v[i]), SQL(sRParen)>>
            ELSE <<Identifier(a.columns.v[i])>>]
    ELSE [i \in 1..Len(self_columns.v) |-> <<Identifier(self_columns.v[i])>>]

SelectClause(a, self_columns) ==
    <<SQL(kwSELECT)>> \o join(SQL(sComma), columns_sql(a, self_columns))

FromClause(a) ==
    <<SQL(kwFROM), Identifier(a.schema.v), SQL(sDot), Identifier(a.table_name.v)>>

\* conditions is {column: (value, operator)}
WhereClause(a) ==
    IF ~Truthy(a.conditions) THEN <<>>
    ELSE <<SQL(kwWHERE)>> \o
         join(SQL(sSpace \o a.conjuction.v \o sSpace),
              [i \in 1..Len(a.conditions.v) |->
                  <<Identifier(a.conditions.v[i][1]), SQL(sSpace),
                    SQL(a.conditions.v[i][2][2]), SQL(sSpace),
                    Literal(a.conditions.v[i][2][1])>>])

GroupByClause(a) ==
    IF ~Truthy(a.group_by) THEN <<>>
    ELSE <<SQL(kwGROUPBY)>> \o
         join(SQL(sComma),
              [i \in 1..Len(a.group_by.v) |-> <<Identifier(a.group_by.v[i])>>])

\* the order spec as dict items: a string means ASC, a tuple is one item
OrderItems(order_by) ==
    CASE order_by.t = "str" -> <<<<order_by.v, sASC>>>>
      [] order_by.t = "tuple" -> <<<<order_by.v[1], order_by.v[2]>>>>
      [] OTHER -> order_by.v

OrderByClause(a) ==
    IF ~Truthy(a.order_by) THEN <<>>
    ELSE LET items == OrderItems(a.order_by)
         IN <<SQL(kwORDERBY)>> \o
            join(SQL(sComma),
                 [i \in 1..Len(items) |->
                     <<Identifier(items[i][1]), SQL(sSpace), SQL(items[i][2])>>])

LimitClause(a) ==
    IF ~Truthy(a.limit) THEN <<>>
    ELSE <<SQL(kwLIMIT), Literal(a.limit.v)>>

\* a read() that appends ORDER BY before GROUP BY
BuildQuery_OrderBeforeGroup(a, self_columns) ==
    SelectClause(a, self_columns) \o FromClause(a) \o WhereClause(a)
        \o OrderByClause(a) \o GroupByClause(a) \o LimitClause(a)

\* the statement read() assembles and hands to query()
BuildQuery(a, self_columns) ==
    SelectClause(a, self_columns) \o FromClause(a) \o WhereClause(a)
        \o GroupByClause(a) \o OrderByClause(a) \o LimitClause(a)

\* a read() that probes for the columns on every call
NeedsProbe_Always(a) == TRUE

\* "if not columns": the column list has to be discovered
NeedsProbe(a) == ~Truthy(a.columns)

\* a read() that only notices an absent group_by, not an empty one
GroupByMissing_NoneOnly(a) == Truthy(a.aggregate) /\ a.group_by.t = "NoneType"

\* "if aggregate: ... if not group_by": the cross-field rule
GroupByMissing(a) == Truthy(a.aggregate) /\ ~Truthy(a.group_by)

\* read(self, **a): self is [return_type, columns, aggregate, result];
\* env is the store's behaviour: probeOk, execOk, nrows
read(self, a, env) ==
    IF ~isinstance(a.columns, {"list", "NoneType"})
    THEN Outcome(Err("TypeError", "Columns must be a list (or None for all columns)"),
                 self.columns, self.aggregate, self.result, <<>>, NoValue)
    ELSE
    LET probe == IF NeedsProbe(a)
                 THEN _get_column_names(a.schema, a.table_name, env)
                 ELSE [err |-> NoErr, execs |-> <<>>, columns |-> a.columns]
    IN
    IF probe.err.kind # "none"
    THEN Outcome(probe.err, self.columns, self.aggregate, self.result,
                 probe.execs, NoValue)
    ELSE
    LET self_aggregate == IF Truthy(a.aggregate) THEN a.aggregate
                          ELSE self.aggregate
    IN
    IF TypeChecks(a).kind # "none"
    THEN Outcome(TypeChecks(a), probe.columns, self.aggregate, self.result,
                 probe.execs, NoValue)
    ELSE IF GroupByMissing(a)
    THEN Outcome(Err("ValueError", "Group by must be specified for aggregate functions"),
                 probe.columns, self_aggregate, self.result, probe.execs, NoValue)
    ELSE IF Truthy(a.aggregate) /\ a.columns.t = "NoneType"
    THEN Outcome(Err("TypeError", "NoneType is not iterable"),
                 probe.columns, self_aggregate, self.result, probe.execs, NoValue)
    ELSE
    LET statement == PyComposed(BuildQuery(a, probe.columns))
        q == query([return_type |-> self.return_type, columns |-> probe.columns,
                    aggregate |-> self_aggregate, result |-> self.result],
                   statement, TRUE, env,
                   Len(columns_sql(a, probe.columns)))
    IN Outcome(q.err, q.columns, q.aggregate, q.result, probe.execs \o q.execs,
               IF q.err.kind = "none" THEN q.result ELSE NoValue)

\* ------------------------------------------------------------- the inputs
\* well-typed read() arguments
ValidReadArgs ==
    [schema : {PyStr(sPub)},
     table_name : {PyStr(sFilm)},
     columns : {PyNone, PyList(<<>>), PyList(<<sCat, sPrice>>)},
     aggregate : {PyNone, PyDict(<<>>), PyDict(<< <<sPrice, sSUM>> >>)},
     conditions : {PyNone, PyDict(<< <<sLen, <<60, sGT>> >>, <<sCat, <<1, sEQ>> >> >>)},
     conjuction : {PyStr(sAND), PyStr(sOR)},
     order_by : {PyNone, PyStr(sPrice), PyTuple(<<sPrice, sDESC>>),
                 PyDict(<< <<sPrice, sASC>>, <<sCat, sDESC>> >>)},
     group_by : {PyNone, PyList(<<>>), PyList(<<sCat, sPrice>>)},
     limit : {PyNone} \cup {PyInt(n) : n \in (0 - 1)..MaxLimit},
     return_type : {PyNone} \cup {PyType(r) : r \in ReturnTypes}]

\* the arguments an ill-typed field is planted in
BaseReadArgs ==
    [schema : {PyStr(sPub)},
     table_name : {PyStr(sFilm)},
     columns : {PyNone, PyList(<<sCat, sPrice>>)},
     aggregate : {PyNone, PyDict(<< <<sPrice, sSUM>> >>)},
     conditions : {PyNone},
     conjuction : {PyStr(sAND)},
     order_by : {PyNone},
     group_by : {PyNone, PyList(<<sCat, sPrice>>)},
     limit : {PyNone},
     return_type : {PyNone}]

\* one value of the wrong type for each checked field
IllTyped ==
    {<<"table_name", PyInt(1)>>, <<"columns", PyStr(sPrice)>>,
     <<"conditions", PyList(<<sLen>>)>>, <<"aggregate", PyList(<<sPrice>>)>>,
     <<"conjuction", PyInt(1)>>, <<"order_by", PyInt(1)>>,
     <<"group_by", PyStr(sCat)>>, <<"limit", PyStr(<<"1">>)>>,
     <<"return_type", PyType("set")>>}

IllTypedReadArgs ==
    {[b EXCEPT ![f[1]] = f[2]] : b \in BaseReadArgs, f \in IllTyped}

\* statements handed to query() directly
QueryInputs ==
    {PyStr(qSelect), PyStr(qSelectLower), PyStr(qUpdate), PyStr(<<>>),
     PyStr(qBlank), PySQL(qSelect), PySQL(qDelete), PySQL(<<>>),
     PyNone, PyInt(1)}

\* the store's behaviour during one call
Envs ==
    {[probeOk |-> FALSE, execOk |-> TRUE, nrows |-> 0],
     [probeOk |-> TRUE, execOk |-> FALSE, nrows |-> 0]}
    \cup {[probeOk |-> TRUE, execOk |-> TRUE, nrows |-> n] : n \in 0..MaxRows}

\* ---------------------------------------------------------------- the state
VARIABLES
    return_type,   \* self.return_type, fixed at construction
    columns,       \* self.columns
    aggregate,     \* self.aggregate
    result,        \* self.result
    connection,    \* the connection self.connection refers to: none/open/closed
    cursor,        \* the cursor self.cursor refers to: none/open/closed
    phase,         \* out: outside the with scope; in: inside its body;
                   \* returned: a call in the body has returned its value;
                   \* raising: an error is leaving the body; failed: an error
                   \* has left the scope
    call           \* the last handler run: op, arguments, error, executes, value

vars == <<return_type, columns, aggregate, result, connection, cursor, phase, call>>

Call(op, args, err, execs, ret) ==
    [op |-> op, args |-> args, err |-> err, execs |-> execs, ret |-> ret]

self == [return_type |-> return_type, columns |-> columns,
         aggregate |-> aggregate, result |-> result]

\* __init__: the fields start as None; an invalid return_type raises
Init ==
    /\ return_type \in ReturnTypes
    /\ columns = PyNone
    /\ aggregate = PyNone
    /\ result = NoValue
    /\ connection = "none"
    /\ cursor = "none"
    /\ phase = "out"
    /\ call = Call("init", <<>>, NoErr, <<>>, NoValue)

\* __enter__: connect, then create the cursor; an error is re-raised as is and
\* the with statement then never runs __exit__
Enter ==
    /\ phase = "out"
    /\ \E connectOk, cursorOk \in BOOLEAN :
        /\ connection' = IF connectOk THEN "open" ELSE connection
        /\ cursor' = IF connectOk /\ cursorOk THEN "open" ELSE cursor
        /\ phase' = IF connectOk /\ cursorOk THEN "in" ELSE "failed"
        /\ call' = Call("enter", <<>>,
                        IF connectOk /\ cursorOk THEN NoErr
                        ELSE Err("BackendError", "connect failed"),
                        <<>>, NoValue)
    /\ UNCHANGED <<return_type, columns, aggregate, result>>

\* the handler's effect on the object and the scope
Apply(op, args, o) ==
    /\ columns' = o.columns
    /\ aggregate' = o.aggregate
    /\ result' = o.result
    /\ phase' = IF o.err.kind = "none" THEN "returned" ELSE "raising"
    /\ call' = Call(op, args, o.err, o.execs, o.ret)
    /\ UNCHANGED <<return_type, connection, cursor>>

Query ==
    /\ phase = "in"
    /\ \E q \in QueryInputs, fetch \in BOOLEAN, env \in Envs :
        Apply("query", [query |-> q, fetch |-> fetch],
              query(self, q, fetch, env, Len(TableColumns)))

Read ==
    /\ phase = "in"
    /\ \E a \in ValidReadArgs \cup IllTypedReadArgs, env \in Envs :
        Apply("read", a, read(self, a, env))

\* the body of the with statement takes the returned value and goes on
Continue ==
    /\ phase = "returned"
    /\ phase' = "in"
    /\ call' = Call("continue", <<>>, NoErr, <<>>, NoValue)
    /\ UNCHANGED <<return_type, columns, aggregate, result, connection, cursor>>

\* __exit__: closes the cursor, then the connection; an error from
\* cursor.close() leaves before connection.close()
Exit ==
    /\ phase \in {"in", "raising"}
    /\ \E closeOk \in BOOLEAN :
        /\ cursor' = IF connection # "none" /\ closeOk THEN "closed" ELSE cursor
        /\ connection' = IF connection # "none" /\ closeOk THEN "closed"
                         ELSE connection
        /\ phase' = IF phase = "in" /\ (connection = "none" \/ closeOk)
                    THEN "out" ELSE "failed"
        /\ call' = Call("exit", <<>>,
                        IF connection = "none" \/ closeOk THEN call.err
                        ELSE Err("BackendError", "cursor close failed"),
                        <<>>, NoValue)
    /\ UNCHANGED <<return_type, columns, aggregate, result>>

Next == Enter \/ Query \/ Read \/ Continue \/ Exit

Spec == Init /\ [][Next]_vars

\* ------------------------------------------------- vocabulary of the claims
GroupByError == Err("ValueError", "Group by must be specified for aggregate functions")

\* the errors raised by read()'s own validation of its arguments
ValidationErrors ==
    {Err("TypeError", "Columns must be a list (or None for all columns)"),
     Err("TypeError", "Table name must be a string"),
     Err("TypeError", "Conditions must be a dictionary"),
     Err("TypeError", "Aggregate must be a dictionary"),
     Err("TypeError", "Conjunction must be a string"),
     Err("TypeError", "order_by must be a dictionary/tuple/string or None"),
     Err("TypeError", "Group must be a list"),
     Err("TypeError", "Limit must be an integer"),
     Err("TypeError", "Invalid return type")}

\* every argument of the call has an accepted type
WellTyped(a) ==
    /\ isinstance(a.columns, {"list", "NoneType"})
    /\ isinstance(a.table_name, {"str"})
    /\ isinstance(a.conditions, {"dict", "NoneType"})
    /\ isinstance(a.aggregate, {"dict", "NoneType"})
    /\ isinstance(a.conjuction, {"str"})
    /\ isinstance(a.order_by, {"dict", "NoneType", "str", "tuple"})
    /\ isinstance(a.group_by, {"list", "NoneType"})
    /\ isinstance(a.limit, {"int", "NoneType"})
    /\ a.return_type \in {PyNone} \cup {PyType(r) : r \in ReturnTypes}

\* the call's aggregate map is a non-empty mapping
HasAggregate(a) == a.aggregate.t = "dict" /\ a.aggregate.v # <<>>

\* the last call was read() and it handed its assembled statement to execute
ReadSentMain ==
    /\ call.op = "read"
    /\ call.execs # <<>>
    /\ call.execs[Len(call.execs)].via = "query"

\* the parts of the statement the last read() assembled
Assembled == call.execs[Len(call.execs)].stmt.v

Positions(parts, kw) == {i \in 1..Len(parts) : parts[i] = SQL(kw)}

ClauseKeywords == <<kwSELECT, kwFROM, kwWHERE, kwGROUPBY, kwORDERBY, kwLIMIT>>

\* the parts that follow keyword kw up to the next clause keyword
Segment(parts, kw) ==
    LET i == CHOOSE k \in Positions(parts, kw) : TRUE
        later == {j \in (i + 1)..Len(parts) :
                    \E n \in 1..Len(ClauseKeywords) : parts[j] = SQL(ClauseKeywords[n])}
        stop == IF later = {} THEN Len(parts) + 1
                ELSE CHOOSE j \in later : \A k \in later : j <= k
    IN SubSeq(parts, i + 1, stop - 1)

\* the first whitespace-separated token of a statement's text is SELECT
FirstKeywordIsSelect(text) ==
    /\ split(text) # <<>>
    /\ upper(split(text)[1]) = sSELECT

\* ------------------------------------------------------------------ claims
\* C1: query() hands a statement to execute only if it is non-empty and its
\* first keyword, case-insensitively, is SELECT, for strings and for
\* sql.Composable objects alike; a rejected statement ends in the gate's
\* ValueError with no execute issued.
C1_GateAdmitsOnlySelect ==
    call.op = "query" =>
        /\ \A i \in 1..Len(call.execs) :
              /\ as_string(call.execs[i].stmt) # <<>>
              /\ FirstKeywordIsSelect(as_string(call.execs[i].stmt))
        /\ (call.execs = <<>> => call.err.kind = "ValueError")

C3_ValidationBeforeAnyExecute ==
    (call.op = "read" /\ call.err \in ValidationErrors \cup {GroupByError}) =>
        call.execs = <<>>

\* C4: the value read() returns has the shape of the call's return_type when
\* one is passed, and of the construction-time return_type otherwise.
C4_OverrideDecidesShape ==
    (call.op = "read" /\ call.err.kind = "none") =>
        call.ret.shape = IF Truthy(call.args.return_type)
                         THEN call.args.return_type.v
                         ELSE return_type

\* C5: once a connection has been opened, cursor and connection are closed
\* whenever control is outside the scope, however the scope was left.
C5_ReleasedOutsideScope ==
    phase \in {"out", "failed"} =>
        /\ connection \in {"none", "closed"}
        /\ cursor \in {"none", "closed"}

\* C6: with limit absent, zero or negative the assembled statement has no
\* LIMIT clause; with limit = N > 0 it ends with LIMIT N as a bound literal.
C6_LimitOnlyWhenPositive ==
    ReadSentMain =>
        IF call.args.limit.t = "int" /\ call.args.limit.v > 0
        THEN /\ Len(Assembled) >= 2
             /\ Assembled[Len(Assembled) - 1] = SQL(kwLIMIT)
             /\ Assembled[Len(Assembled)] = Literal(call.args.limit.v)
        ELSE Positions(Assembled, kwLIMIT) = {}

\* the keywords of the clauses that may be left out, with the field of each
OptionalClauses ==
    <<[kw |-> kwWHERE, field |-> "conditions"],
      [kw |-> kwGROUPBY, field |-> "group_by"],
      [kw |-> kwORDERBY, field |-> "order_by"],
      [kw |-> kwLIMIT, field |-> "limit"]>>

\* the limit is one a valid query spec may carry: absent or positive
ValidLimit(a) == a.limit = PyNone \/ (a.limit.t = "int" /\ a.limit.v > 0)

\* C7: the assembled statement has its clauses in the order SELECT, FROM,
\* WHERE, GROUP BY, ORDER BY, LIMIT; SELECT and FROM are always there and each
\* other clause is there exactly when its field is non-empty; the conditions
\* are joined by the one conjunction; order_by given as a column name gives
\* the ORDER BY clause of the mapping {column: ASC}.
C7_ClauseOrderAndPresence ==
    (ReadSentMain /\ ValidLimit(call.args)) =>
        LET parts == Assembled
            a == call.args
            n == Len(a.conditions.v)
            where == Segment(parts, kwWHERE)
        IN /\ Positions(parts, kwSELECT) = {1}
           /\ Cardinality(Positions(parts, kwFROM)) = 1
           /\ \A k \in 1..Len(OptionalClauses) :
                 Cardinality(Positions(parts, OptionalClauses[k].kw)) =
                     IF Truthy(a[OptionalClauses[k].field]) THEN 1 ELSE 0
           /\ \A k1, k2 \in 1..Len(ClauseKeywords) :
                 k1 < k2 =>
                     \A i \in Positions(parts, ClauseKeywords[k1]),
                        j \in Positions(parts, ClauseKeywords[k2]) : i < j
           /\ Truthy(a.conditions) =>
                 /\ Len(where) = 6 * n - 1
                 /\ \A k \in 1..n :
                       where[6 * k - 5] = Identifier(a.conditions.v[k][1])
                 /\ \A k \in 1..(n - 1) :
                       where[6 * k] = SQL(sSpace \o a.conjuction.v \o sSpace)
           /\ a.order_by.t = "str" =>
                 <<SQL(kwORDERBY)>> \o Segment(parts, kwORDERBY) =
                     OrderByClause([a EXCEPT !.order_by =
                                       PyDict(<< <<a.order_by.v, sASC>> >>)])

C7_Witness ==
    /\ ReadSentMain
    /\ call.args.limit = PyInt(1)
    /\ Len(call.args.conditions.v) = 2
    /\ call.args.conjuction = PyStr(sOR)
    /\ Truthy(call.args.group_by)
    /\ call.args.order_by = PyStr(sPrice)
    /\ Segment(Assembled, kwORDERBY)
          = <<Identifier(sPrice), SQL(sSpace), SQL(sASC)>>

\* the header the call's own aggregate map asks for, over the resolved columns
OwnHeader(a, resolved) ==
    [i \in 1..Len(resolved) |->
        IF HasAggregate(a) /\ DictHas(a.aggregate.v, resolved[i])
        THEN lower(DictGet(a.aggregate.v, resolved[i])) \o sColonSpace \o resolved[i]
        ELSE resolved[i]]

\* C8: the header of a frame returned by read() is decided by that call's own
\* aggregate map: "<lowercased function>: <column>" for its keys and the plain
\* column name otherwise, whatever earlier calls on the object passed.
C8_HeaderFromOwnAggregate ==
    (call.op = "read" /\ call.err.kind = "none" /\ call.ret.shape = "DataFrame") =>
        call.ret.header = OwnHeader(call.args, columns.v)

\* the SELECT items the aggregate map asks for, over the resolved columns
ExpectedSelect(a, resolved) ==
    join(SQL(sComma),
         [i \in 1..Len(resolved) |->
            IF DictHas(a.aggregate.v, resolved[i])
            THEN <<SQL(DictGet(a.aggregate.v, resolved[i])), SQL(sLParen),
                   Identifier(resolved[i]), SQL(sRParen)>>
            ELSE <<Identifier(resolved[i])>>])

\* C9: with an aggregate map and group_by, the SELECT clause has one item per
\* resolved column, FUNCTION(column) for the map's keys and the bare column
\* otherwise; the resolved columns are the caller's list or, when none was
\* supplied, the probed list, so the call assembles a statement and does not
\* fail before executing it.
C9_AggregateOverResolvedColumns ==
    (/\ call.op = "read"
     /\ WellTyped(call.args)
     /\ HasAggregate(call.args)
     /\ Truthy(call.args.group_by)
     /\ \A i \in 1..Len(call.execs) : call.execs[i].via = "probe" => call.execs[i].ok) =>
        /\ ReadSentMain
        /\ Segment(Assembled, kwSELECT) = ExpectedSelect(call.args, columns.v)

\* the text of the probe for the call's table
ProbeText(a) ==
    kwPROBE \o sQuote \o a.schema.v \o sQuote \o sDot
        \o sQuote \o a.table_name.v \o sQuote \o kwPROBEEND

\* C10: a successful read() issues exactly one execute, the main SELECT, when
\* the caller supplies columns, and exactly the probe followed by the main
\* SELECT when the caller supplies none; no read() issues more than two
\* executes or a probe after the main SELECT.
C10_RoundTrips ==
    call.op = "read" =>
        /\ Len(call.execs) <= 2
        /\ \A i, j \in 1..Len(call.execs) :
              (i < j /\ call.execs[i].via = "query") => call.execs[j].via # "probe"
        /\ call.err.kind = "none" =>
              IF Truthy(call.args.columns)
              THEN /\ Len(call.execs) = 1
                   /\ call.execs[1].via = "query"
                   /\ call.execs[1].stmt.v[1] = SQL(kwSELECT)
              ELSE /\ Len(call.execs) = 2
                   /\ call.execs[1].via = "probe"
                   /\ as_string(call.execs[1].stmt) = ProbeText(call.args)
                   /\ call.execs[2].via = "query"
                   /\ call.execs[2].stmt.v[1] = SQL(kwSELECT)

C10_Witness ==
    /\ call.op = "read"
    /\ call.err.kind = "none"
    /\ call.args.columns = PyNone
    /\ Len(call.execs) = 2
    /\ call.execs[1].via = "probe"
    /\ call.execs[2].via = "query"

====
